---- MODULE Spec2Model ----
(***************************************************************************)
(* Blink Delete: the gesture detection core of useBlinkDetection (blink    *)
(* and head-tilt classifiers driven by faceMesh.onResults) and the page    *)
(* that consumes its events (calibration, marking, navigation).            *)
(*                                                                         *)
(* Units: timestamps are milliseconds (Date.now()), eye-aspect ratios are  *)
(* hundredths (0.18 is 18), tilt angles are whole degrees.                 *)
(*                                                                         *)
(* React is modelled with the pending state (`page`, `state`: what every   *)
(* setState call has produced so far) and the state of the last commit     *)
(* (`rendered`: what closures created by the last render read). Render     *)
(* commits the pending state and runs the effects whose dependencies       *)
(* changed, in their order of definition. React renders the updates of a   *)
(* click or key press before it runs any other task (`sync`), and the      *)
(* updates made by a frame evaluation in a task of their own, which is     *)
(* queued before the pump's 50 ms timer fires: a frame is evaluated only   *)
(* when the earlier updates are committed, while a click or key press may  *)
(* still come in between.                                                  *)
(***************************************************************************)
EXTENDS Integers, Sequences, FiniteSets, TLC

VARIABLES
    \* ---- useBlinkDetection refs ----
    faceMeshRef,               \* TRUE: a FaceMesh instance is held
    starting,                  \* startDetection calls in progress, counted by what they await
    streamRef,                 \* TRUE: a camera stream is held
    videoSrc,                  \* TRUE: the mounted <video> has a stream as its srcObject
    isProcessingRef,
    animationFrameRef,         \* "null", or the handle of a "pending" or a "stale" request
    frames,                    \* requested animation frames whose handle is no longer kept
    timers,                    \* pending 50 ms throttle timers
    sends,                     \* faceMesh.send calls in flight: to the current instance, to others
    lastBlinkTimeRef,
    lastTiltTimeRef,
    isBlinkingRef,
    eyeOpenSinceRef,
    consecutiveLowEARRef,
    consecutiveTiltFramesRef,
    lastTiltDirectionRef,
    hasFiredTiltRef,
    wasNeutralRef,
    \* ---- useBlinkDetection state (setState) ----
    state,                     \* [blinkCount, isBlinking, faceDetected, headTilt]
    \* ---- BlinkDeletePage state, refs and last commit ----
    page,                      \* pending React state of the page
    refs,                      \* isCalibrationRef, appStateRef, currentIndexRef, photosLengthRef
    rendered,                  \* page state as of the last commit
    sync,                      \* TRUE: the pending state was set by a click or a key press
    \* ---- environment ----
    now,                       \* Date.now() as read by the last frame evaluation
    \* ---- observation (history) variables, read by the properties only ----
    fired,                     \* callbacks invoked by the last onResults call, in order
    blinkLog,                  \* timestamps of all blink events so far
    lowRun,                    \* the current run of low frames: [len, fires, openBefore, start]
    openRun,                   \* the latest run of open frames: [seen, start]
    tiltRun,                   \* the current run of same-direction frames
    tiltLog,                   \* per direction: fires since the last Neutral frame, fires in all
    script,                    \* the frames evaluated since construction, while few
    sample,                    \* the landmarks of the last frame and what was computed from them
    calEnd,                    \* how the last calibration ended
    inFlight,                  \* handleSendEmail calls that have not seen their response
    \* ---- /api/blink-delete-email ----
    request,                   \* the POST request being handled and how its awaits settle
    emails,                    \* the emails accepted by resend.emails.send, by attachment sizes
    responses                  \* the responses returned for the request

pump == <<streamRef, videoSrc, isProcessingRef, animationFrameRef, frames, timers, sends>>
hookRefs == <<faceMeshRef, starting, pump, lastBlinkTimeRef, lastTiltTimeRef, isBlinkingRef, eyeOpenSinceRef,
              consecutiveLowEARRef, consecutiveTiltFramesRef, lastTiltDirectionRef,
              hasFiredTiltRef, wasNeutralRef>>
classifierRefs == <<lastBlinkTimeRef, lastTiltTimeRef, isBlinkingRef, eyeOpenSinceRef,
                    consecutiveLowEARRef, consecutiveTiltFramesRef, lastTiltDirectionRef,
                    hasFiredTiltRef, wasNeutralRef>>
observers == <<blinkLog, lowRun, openRun, tiltRun, tiltLog, script, sample>>
route == <<request, emails, responses>>
vars == <<hookRefs, state, page, refs, rendered, sync, now, fired, observers, calEnd, inFlight,
          route>>

----------------------------------------------------------------------------
(* Bounds of the model *)

HorizonTicks == 20      \* frames are evaluated for HorizonTicks * 100 ms after the first
BlinkTicks == 15        \* as HorizonTicks, for the frames that exercise the blink classifier
MaxPhotos == 2          \* photos of an uploaded session
MaxBlinks == 3          \* cap on blinkCount and calibrationBlinks
ScriptLen == 5          \* frames kept in `script`
JointTicks == 8         \* as HorizonTicks, for the frames that exercise both classifiers
MaxCalls == 1           \* startDetection calls in progress at a time
MaxChains == 2          \* frame pumps alive at a time
PumpTicks == 2          \* frames evaluated by the sends of the pump
FrameTicks == 2         \* frames evaluated from landmarks
MaxMails == 2           \* email requests awaiting their response at a time
HeldTicks == 12         \* as HorizonTicks, for frames 100 ms apart of held or released gestures

(* Program constants *)

blinkThreshold == 18    \* 0.18
debounceMs == 500
tiltThreshold == 15
tiltDebounceMs == 600
minEyesOpenMs == 150
blinkConfirmFrames == 2
tiltConfirmFrames == 3
calibrationTarget == 3
SAMPLE_PHOTOS == 5

\* Date.now() is wall-clock time: at a session's first frame it is far above every
\* debounce window, whatever the refs' initial 0 stands for.
StartTime == debounceMs + tiltDebounceMs
MaxTime == StartTime + 100 * HorizonTicks
Deltas == {100, 200, 500}          \* time between two frame evaluations (pump throttle: >= 50)
EARs == {5, 18, 30}                \* avgEAR values: closed, at the threshold, open
Angles == {0 - 20, 0 - 15, 0, 15, 20}
Directions == {"neutral", "left", "right"}

----------------------------------------------------------------------------
(* Landmark geometry: calculateEAR and calculateHeadTilt. Coordinates are whole   *)
(* units of a grid; a landmark list is a function from indices to points, and an  *)
(* index outside its domain reads as undefined. Square roots are taken on exact   *)
(* squares here and rounded down otherwise; angles are whole degrees, exact on    *)
(* the axes and within one degree elsewhere.                                      *)

LEFT_EYE_INDICES == <<362, 385, 387, 263, 373, 380>>
RIGHT_EYE_INDICES == <<33, 160, 158, 133, 153, 144>>
LEFT_EAR == 234
RIGHT_EAR == 454

Undefined == [defined |-> FALSE, x |-> 0, y |-> 0]
Point(x, y) == [defined |-> TRUE, x |-> x, y |-> y]

\* landmarks[i]
At(landmarks, i) == IF i \in DOMAIN landmarks THEN landmarks[i] ELSE Undefined

\* Math.sqrt
Sqrt(n) == CHOOSE r \in 0..n : r * r <= n /\ (r + 1) * (r + 1) > n

\* Math.sqrt(Math.pow(p.x - q.x, 2) + Math.pow(p.y - q.y, 2))
Distance(p, q) == Sqrt((p.x - q.x) * (p.x - q.x) + (p.y - q.y) * (p.y - q.y))

\* calculateEAR, in hundredths; raised: reading .x of an undefined entry throws a
\* TypeError. The six entries come from indices.map(i => landmarks[i]), so the list
\* always has six of them, undefined ones included.
calculateEAR(eyeLandmarks) ==
    IF Len(eyeLandmarks) < 6 THEN [raised |-> FALSE, value |-> 100]
    ELSE IF \E k \in 1..6 : ~eyeLandmarks[k].defined THEN [raised |-> TRUE, value |-> 0]
    ELSE LET v1 == Distance(eyeLandmarks[2], eyeLandmarks[6])
             v2 == Distance(eyeLandmarks[3], eyeLandmarks[5])
             h == Distance(eyeLandmarks[1], eyeLandmarks[4])
         IN  IF h = 0 THEN [raised |-> FALSE, value |-> 100]
             ELSE [raised |-> FALSE, value |-> (100 * (v1 + v2)) \div (2 * h)]

\* Math.atan(n / d) in degrees, for 0 <= n <= d and d > 0
AtanDeg(n, d) == (4500 * n * d + 1564 * n * (d - n)) \div (100 * d * d)

\* Math.atan2(dy, dx) * (180 / Math.PI)
Atan2Deg(dy, dx) ==
    LET ax == IF dx < 0 THEN 0 - dx ELSE dx
        ay == IF dy < 0 THEN 0 - dy ELSE dy
        a == IF ax = 0 /\ ay = 0 THEN 0
             ELSE IF ay <= ax THEN AtanDeg(ay, ax) ELSE 90 - AtanDeg(ax, ay)
        q == IF dx >= 0 THEN a ELSE 180 - a
    IN  IF dy >= 0 THEN q ELSE 0 - q

\* mutant: the angle of the slope, Math.atan(deltaY / deltaX), which is 0 for a
\* level line in either order
calculateHeadTiltSlope(landmarks) ==
    LET leftEar == At(landmarks, LEFT_EAR)
        rightEar == At(landmarks, RIGHT_EAR)
        deltaY == rightEar.y - leftEar.y
        deltaX == rightEar.x - leftEar.x
    IN  IF ~leftEar.defined \/ ~rightEar.defined THEN 0
        ELSE IF deltaX = 0 THEN (IF deltaY > 0 THEN 90 ELSE IF deltaY < 0 THEN 0 - 90 ELSE 0)
        ELSE IF deltaX > 0 THEN Atan2Deg(deltaY, deltaX)
        ELSE Atan2Deg(0 - deltaY, 0 - deltaX)

\* calculateHeadTilt
calculateHeadTilt(landmarks) ==
    LET leftEar == At(landmarks, LEFT_EAR)
        rightEar == At(landmarks, RIGHT_EAR)
        deltaY == rightEar.y - leftEar.y
        deltaX == rightEar.x - leftEar.x
    IN  IF ~leftEar.defined \/ ~rightEar.defined THEN 0
        ELSE Atan2Deg(deltaY, deltaX)

----------------------------------------------------------------------------
(* The blink classifier: faceMesh.onResults, "BLINK DETECTION" *)

\* avgEAR < blinkThreshold
IsCurrentlyBlinking(avgEAR) == avgEAR < blinkThreshold

\* consecutiveLowEARRef after the frame
NextLowEAR(low, count) == IF low THEN count + 1 ELSE 0

\* eyeOpenSinceRef after the counter update: set by an open frame when it is 0
NextEyeOpenSince(low, openSince, t) ==
    IF ~low /\ openSince = 0 THEN t ELSE openSince

\* mutant: a single low frame confirms
IsConfirmedBlinkOneFrame(count) == count >= 1

\* const isConfirmedBlink = consecutiveLowEARRef.current >= 2
IsConfirmedBlink(count) == count >= blinkConfirmFrames

\* const eyesWereOpenLongEnough = now - eyeOpenSinceRef.current > 150
EyesWereOpenLongEnough(t, openSince) == t - openSince > minEyesOpenMs

\* mutant: no debounce
BlinkDebouncedAlways(t, lastBlink) == TRUE

\* now - lastBlinkTimeRef.current > debounceMs
BlinkDebounced(t, lastBlink) == t - lastBlink > debounceMs

\* mutant: fires on every confirmed frame, not only on the transition
BlinkFiresWhileConfirmed(confirmed, wasBlinking, t, lastBlink, openSince) ==
    /\ confirmed
    /\ t - lastBlink > debounceMs
    /\ t - openSince > minEyesOpenMs

\* the two nested conditions under which onBlink is called
BlinkFires(confirmed, wasBlinking, t, lastBlink, openSince) ==
    /\ confirmed /\ ~wasBlinking
    /\ BlinkDebounced(t, lastBlink)
    /\ EyesWereOpenLongEnough(t, openSince)

----------------------------------------------------------------------------
(* The tilt classifier: faceMesh.onResults, "HEAD TILT DETECTION" *)

DetectTilt(tiltAngle) ==
    IF tiltAngle > tiltThreshold THEN "right"
    ELSE IF tiltAngle < 0 - tiltThreshold THEN "left"
    ELSE "neutral"

\* mutant: the counter starts over once it has reached 3
NextTiltFramesRestarting(detectedTilt, lastDirection, count) ==
    IF detectedTilt = lastDirection /\ detectedTilt # "neutral" /\ count < tiltConfirmFrames
    THEN count + 1 ELSE 0

\* consecutiveTiltFramesRef after the frame
NextTiltFrames(detectedTilt, lastDirection, count) ==
    IF detectedTilt = lastDirection /\ detectedTilt # "neutral" THEN count + 1 ELSE 0

\* mutant: confirms one frame early
IsConfirmedTiltEarly(count) == count >= tiltConfirmFrames - 1

\* const isConfirmedTilt = consecutiveTiltFramesRef.current >= 3
IsConfirmedTilt(count) == count >= tiltConfirmFrames

\* mutant: no debounce
TiltDebouncedAlways(t, lastTilt) == TRUE

\* now - lastTiltTimeRef.current > tiltDebounceMs
TiltDebounced(t, lastTilt) == t - lastTilt > tiltDebounceMs

\* mutant: the latch flags are not consulted
TiltFiresUnlatched(confirmed, detectedTilt, hasFired, wasNeutral, t, lastTilt) ==
    /\ confirmed
    /\ detectedTilt # "neutral"
    /\ TiltDebounced(t, lastTilt)

\* the condition of "Fire tilt event ONCE when"
TiltFires(confirmed, detectedTilt, hasFired, wasNeutral, t, lastTilt) ==
    /\ confirmed
    /\ detectedTilt # "neutral"
    /\ ~hasFired
    /\ wasNeutral
    /\ TiltDebounced(t, lastTilt)

\* mutant: the second test is not an else branch and tests the wrong thing
TiltCallbacksBoth(detectedTilt) ==
    (IF detectedTilt = "left" THEN <<"onTiltLeft">> ELSE <<>>)
    \o (IF detectedTilt # "neutral" THEN <<"onTiltRight">> ELSE <<>>)

\* the callbacks the fire block invokes for a direction
TiltCallbacks(detectedTilt) ==
    IF detectedTilt = "left" THEN <<"onTiltLeft">>
    ELSE IF detectedTilt = "right" THEN <<"onTiltRight">>
    ELSE <<>>

\* mutant: the fire block does not set the latch
NextLatchUnlatched(fires, detectedTilt, hasFired, wasNeutral) ==
    IF detectedTilt = "neutral" /\ ~wasNeutral
    THEN [hasFired |-> FALSE, wasNeutral |-> TRUE]
    ELSE [hasFired |-> hasFired, wasNeutral |-> wasNeutral]

\* hasFiredTiltRef and wasNeutralRef after the fire block and the neutral block
NextLatch(fires, detectedTilt, hasFired, wasNeutral) ==
    IF fires THEN [hasFired |-> TRUE, wasNeutral |-> FALSE]
    ELSE IF detectedTilt = "neutral" /\ ~wasNeutral
         THEN [hasFired |-> FALSE, wasNeutral |-> TRUE]
         ELSE [hasFired |-> hasFired, wasNeutral |-> wasNeutral]

\* state.headTilt after the two setState calls of the tilt section
NextHeadTilt(confirmed, detectedTilt, headTilt) ==
    IF detectedTilt = "neutral" THEN "neutral"
    ELSE IF confirmed THEN detectedTilt
    ELSE headTilt

----------------------------------------------------------------------------
(* useBlinkDetection: resetBlinkCount and stopDetection, as state updates *)

\* mutant: resets the indicators with the counter
ResetBlinkCountAll(st) ==
    [st EXCEPT !.blinkCount = 0, !.isBlinking = FALSE, !.faceDetected = FALSE,
               !.headTilt = "neutral"]

\* resetBlinkCount: setState(prev => ({ ...prev, blinkCount: 0 }))
ResetBlinkCount(st) == [st EXCEPT !.blinkCount = 0]

\* the setState call that ends stopDetection
StopState(st) ==
    [st EXCEPT !.isInitialized = FALSE, !.faceDetected = FALSE, !.headTilt = "neutral"]

\* stopDetection, the refs: the kept animation frame is cancelled, the face mesh
\* closed, the stream stopped and detached from the video, the processing flag
\* cleared. A send in flight stays in flight, to an instance that is no longer kept.
StopRefs ==
    /\ animationFrameRef' = "null"
    /\ faceMeshRef' = FALSE
    /\ sends' = [current |-> 0, other |-> sends.other + sends.current]
    /\ streamRef' = FALSE
    /\ videoSrc' = FALSE
    /\ isProcessingRef' = FALSE
    /\ UNCHANGED <<frames, timers>>

\* startDetection up to its first await; webgl is isWebGLSupported(). The state
\* record holds error as a flag: TRUE for a message, FALSE for null.
StartState(webgl, st) ==
    IF webgl THEN [st EXCEPT !.isLoading = TRUE, !.error = FALSE]
    ELSE [st EXCEPT !.error = TRUE, !.isLoading = FALSE]

StartCalls(webgl, calls) ==
    IF webgl THEN [calls EXCEPT !.camera = @ + 1] ELSE calls

----------------------------------------------------------------------------
(* BlinkDeletePage: the event consumers *)

\* mutant: a blink marks the photo and never unmarks it
ToggleMarks(photos, idx) ==
    [i \in DOMAIN photos |-> IF i - 1 = idx THEN TRUE ELSE photos[i]]

\* prev.map((p, i) => i === idx ? { ...p, marked: !p.marked } : p)
Toggle(photos, idx) ==
    [i \in DOMAIN photos |-> IF i - 1 = idx THEN ~photos[i] ELSE photos[i]]

\* mutant: a blink event during calibration is dropped
HandleBlinkUncounted(p, r) ==
    IF r.isCalibration THEN p
    ELSE IF r.appState \in {"review", "demo"} /\ r.currentIndex < r.photosLength
         THEN [p EXCEPT !.photos = Toggle(@, r.currentIndex)]
         ELSE p

\* handleBlink: counts while calibrating, else toggles the current photo's mark
HandleBlink(p, r) ==
    IF r.isCalibration THEN [p EXCEPT !.calibrationBlinks = @ + 1]
    ELSE IF r.appState \in {"review", "demo"} /\ r.currentIndex < r.photosLength
         THEN [p EXCEPT !.photos = Toggle(@, r.currentIndex)]
         ELSE p

\* mutant: no calibration check
HandleTiltRightUnguarded(p, r) ==
    IF r.currentIndex < r.photosLength - 1 THEN [p EXCEPT !.currentIndex = @ + 1]
    ELSE IF r.currentIndex = r.photosLength - 1 THEN [p EXCEPT !.appState = "results"]
    ELSE p

\* handleTiltRight: advance, or finish on the last photo
HandleTiltRight(p, r) ==
    IF r.isCalibration THEN p
    ELSE IF r.currentIndex < r.photosLength - 1 THEN [p EXCEPT !.currentIndex = @ + 1]
    ELSE IF r.currentIndex = r.photosLength - 1 THEN [p EXCEPT !.appState = "results"]
    ELSE p

\* handleTiltLeft: go back
HandleTiltLeft(p, r) ==
    IF r.isCalibration THEN p
    ELSE IF r.currentIndex > 0 THEN [p EXCEPT !.currentIndex = @ - 1]
    ELSE p

\* useBlinkDetection(handleBlink, 0.18, 500, handleTiltRight, handleTiltLeft, 15, 600):
\* the fourth argument is the hook's onTiltLeft, the fifth its onTiltRight
Callback(name, p, r) ==
    CASE name = "onBlink" -> HandleBlink(p, r)
      [] name = "onTiltLeft" -> HandleTiltRight(p, r)
      [] name = "onTiltRight" -> HandleTiltLeft(p, r)

RECURSIVE ApplyCallbacks(_, _, _)
ApplyCallbacks(cbs, p, r) ==
    IF cbs = <<>> THEN p
    ELSE ApplyCallbacks(Tail(cbs), Callback(Head(cbs), p, r), r)

----------------------------------------------------------------------------
(* faceMesh.onResults *)

Has(cbs, name) == \E i \in DOMAIN cbs : cbs[i] = name
Count(cbs, names) == Cardinality({i \in DOMAIN cbs : cbs[i] \in names})

\* the observation variables after an evaluated frame
Observe(t, dt, low, blink, detectedTilt, tilt, tiltCount) ==
    /\ blinkLog' = IF blink THEN blinkLog \cup {t} ELSE blinkLog
    /\ lowRun' =
        IF low
        THEN [len |-> lowRun.len + 1,
              fires |-> lowRun.fires + (IF blink THEN 1 ELSE 0),
              start |-> IF lowRun.len = 0 THEN t ELSE lowRun.start]
        ELSE [len |-> 0, fires |-> 0, start |-> 0]
    /\ openRun' =
        IF low THEN openRun
        ELSE [seen |-> TRUE,
              start |-> IF openRun.seen /\ lowRun.len = 0 THEN openRun.start ELSE t]
    /\ tiltRun' =
        IF tiltRun.len > 0 /\ tiltRun.dir = detectedTilt
        THEN [tiltRun EXCEPT !.len = @ + 1,
                             !.fires = @ + (IF tilt THEN 1 ELSE 0),
                             !.firedAt = IF tilt THEN tiltCount ELSE @]
        ELSE [dir |-> detectedTilt, len |-> 1,
              fires |-> IF tilt THEN 1 ELSE 0,
              firedAt |-> IF tilt THEN tiltCount ELSE 0 - 1,
              afterNeutral |-> tiltRun.len = 0 \/ tiltRun.dir = "neutral",
              debounced |-> tiltLog.total = 0 \/ t - tiltLog.lastAt > tiltDebounceMs]
    /\ tiltLog' =
        IF detectedTilt = "neutral"
        THEN [tiltLog EXCEPT !.sinceNeutral = [d \in {"left", "right"} |-> 0]]
        ELSE IF tilt
        THEN [sinceNeutral |-> [tiltLog.sinceNeutral EXCEPT ![detectedTilt] = @ + 1],
              total |-> tiltLog.total + 1,
              lastAt |-> t,
              lastDir |-> detectedTilt]
        ELSE tiltLog
    /\ script' =
        IF script.open /\ Len(script.frames) < ScriptLen
        THEN [script EXCEPT !.frames =
                 Append(@, [low |-> low,
                            spaced |-> script.frames = <<>> \/ dt > minEyesOpenMs,
                            blink |-> blink])]
        ELSE [frames |-> <<>>, open |-> FALSE]

\* mutant: a frame without a face ends the closure and the tilt in progress
NoFaceResets ==
    /\ state' = [state EXCEPT !.faceDetected = FALSE]
    /\ fired' = <<>>
    /\ script' = [frames |-> <<>>, open |-> FALSE]
    /\ consecutiveLowEARRef' = 0
    /\ consecutiveTiltFramesRef' = 0
    /\ UNCHANGED <<lastBlinkTimeRef, lastTiltTimeRef, isBlinkingRef, eyeOpenSinceRef,
                   lastTiltDirectionRef, hasFiredTiltRef, wasNeutralRef,
                   page, blinkLog, lowRun, openRun, tiltRun, tiltLog>>

\* the branch for a frame without a face
NoFace ==
    /\ state' = [state EXCEPT !.faceDetected = FALSE]
    /\ fired' = <<>>
    /\ script' = [frames |-> <<>>, open |-> FALSE]
    /\ UNCHANGED <<classifierRefs, page, blinkLog, lowRun, openRun, tiltRun, tiltLog>>

\* the branch that evaluates both classifiers on a frame with a face, at Date.now() = t
Evaluate(avgEAR, tiltAngle, t, dt) ==
    LET low == IsCurrentlyBlinking(avgEAR)
        lowCount == NextLowEAR(low, consecutiveLowEARRef)
        openSince == NextEyeOpenSince(low, eyeOpenSinceRef, t)
        confirmedBlink == IsConfirmedBlink(lowCount)
        blink == BlinkFires(confirmedBlink, isBlinkingRef, t, lastBlinkTimeRef, openSince)
        detectedTilt == DetectTilt(tiltAngle)
        tiltCount == NextTiltFrames(detectedTilt, lastTiltDirectionRef,
                                    consecutiveTiltFramesRef)
        confirmedTilt == IsConfirmedTilt(tiltCount)
        tilt == TiltFires(confirmedTilt, detectedTilt, hasFiredTiltRef, wasNeutralRef,
                          t, lastTiltTimeRef)
        latch == NextLatch(tilt, detectedTilt, hasFiredTiltRef, wasNeutralRef)
        cbs == (IF blink THEN <<"onBlink">> ELSE <<>>)
               \o (IF tilt THEN TiltCallbacks(detectedTilt) ELSE <<>>)
    IN  /\ consecutiveLowEARRef' = lowCount
        /\ eyeOpenSinceRef' = IF blink THEN 0 ELSE openSince
        /\ lastBlinkTimeRef' = IF blink THEN t ELSE lastBlinkTimeRef
        /\ isBlinkingRef' = confirmedBlink
        /\ consecutiveTiltFramesRef' = tiltCount
        /\ lastTiltDirectionRef' = detectedTilt
        /\ lastTiltTimeRef' = IF tilt THEN t ELSE lastTiltTimeRef
        /\ hasFiredTiltRef' = latch.hasFired
        /\ wasNeutralRef' = latch.wasNeutral
        /\ state' = [state EXCEPT
                        !.faceDetected = TRUE,
                        !.blinkCount = @ + (IF blink THEN 1 ELSE 0),
                        !.isBlinking = IF ~low /\ isBlinkingRef THEN FALSE
                                       ELSE IF blink THEN TRUE
                                       ELSE @,
                        !.headTilt = NextHeadTilt(confirmedTilt, detectedTilt, @)]
        /\ fired' = cbs
        /\ page' = ApplyCallbacks(cbs, page, refs)
        /\ Observe(t, dt, low, blink, detectedTilt, tilt, tiltCount)

\* one call of the callback registered with faceMesh.onResults, dt after the previous
OnResults(face, avgEAR, tiltAngle, dt) ==
    /\ faceMeshRef
    /\ rendered = page
    /\ now + dt <= MaxTime
    /\ now' = now + dt
    /\ IF face THEN Evaluate(avgEAR, tiltAngle, now + dt, dt) ELSE NoFace
    /\ UNCHANGED <<route, inFlight, faceMeshRef, starting, pump, refs, rendered, sync, calEnd, sample>>

\* one call of the callback registered with faceMesh.onResults for a face with the
\* given landmarks. A TypeError raised by calculateEAR leaves the callback before
\* anything but the face-present flag is set.
OnLandmarks(landmarks, dt) ==
    /\ faceMeshRef
    /\ rendered = page
    /\ now + dt <= MaxTime
    /\ now' = now + dt
    /\ LET leftEye == [k \in 1..6 |-> At(landmarks, LEFT_EYE_INDICES[k])]
           rightEye == [k \in 1..6 |-> At(landmarks, RIGHT_EYE_INDICES[k])]
           leftEAR == calculateEAR(leftEye)
           rightEAR == calculateEAR(rightEye)
           raised == leftEAR.raised \/ rightEAR.raised
           tiltAngle == calculateHeadTilt(landmarks)
       IN  /\ sample' = [landmarks |-> landmarks, raised |-> raised,
                         leftEAR |-> leftEAR.value, rightEAR |-> rightEAR.value,
                         tiltAngle |-> IF raised THEN 0 ELSE tiltAngle]
           /\ IF raised
              THEN /\ state' = [state EXCEPT !.faceDetected = TRUE]
                   /\ fired' = <<>>
                   /\ script' = [frames |-> <<>>, open |-> FALSE]
                   /\ UNCHANGED <<classifierRefs, page, blinkLog, lowRun, openRun,
                                  tiltRun, tiltLog>>
              ELSE Evaluate((leftEAR.value + rightEAR.value) \div 2, tiltAngle,
                            now + dt, dt)
    /\ UNCHANGED <<route, inFlight, faceMeshRef, starting, pump, refs, rendered, sync, calEnd>>

\* onResults with the classifiers' verdict left open: the hook invokes onBlink
\* (blink = TRUE) and the tilt callback of direction tilt, as the fire blocks do
Gesture(blink, tilt) ==
    /\ faceMeshRef
    /\ rendered = page
    /\ blink \/ tilt # "neutral"
    /\ blink => state.blinkCount < MaxBlinks /\ page.calibrationBlinks < MaxBlinks
    /\ LET cbs == (IF blink THEN <<"onBlink">> ELSE <<>>) \o TiltCallbacks(tilt)
       IN  /\ fired' = cbs
           /\ page' = ApplyCallbacks(cbs, page, refs)
           /\ state' = [state EXCEPT !.faceDetected = TRUE,
                                     !.blinkCount = @ + (IF blink THEN 1 ELSE 0),
                                     !.isBlinking = IF blink THEN TRUE ELSE @]
    /\ UNCHANGED <<route, inFlight, hookRefs, refs, rendered, sync, now, observers, calEnd>>

----------------------------------------------------------------------------
(* BlinkDeletePage: commit and effects *)

Changed(f) == rendered[f] # page[f]

\* the <video> element is rendered inside the demo / review panel only: videoRef.current
\* is that element while the panel is mounted, null otherwise
VideoMounted(p) == p.appState \in {"review", "demo"}

\* mutant: completes one blink early
CalibrationCompleteEarly(p) == p.calibrationBlinks >= calibrationTarget - 1 /\ p.isCalibrating

\* the condition of the calibration completion effect
CalibrationComplete(p) == p.calibrationBlinks >= calibrationTarget /\ p.isCalibrating

\* the results effect calls handleSendEmail, and handleSendEmail goes on to its fetch
SendsEmail(p) == ~p.isDemoMode /\ ~p.emailSent /\ Len(p.photos) > 0

\* React commits the pending state, then runs the effects whose dependencies changed:
\* the four ref syncs, calibration completion, and the results effect (stopDetection,
\* and handleSendEmail up to its fetch)
Render ==
    /\ rendered # page
    /\ LET complete == /\ Changed("calibrationBlinks") \/ Changed("isCalibrating")
                       /\ CalibrationComplete(page)
           results == /\ \/ Changed("appState") \/ Changed("isDemoMode")
                         \/ Changed("photos") \/ Changed("emailSent")
                      /\ page.appState = "results"
       IN  /\ rendered' = page
           /\ refs' = [isCalibration |-> IF Changed("isCalibrating")
                                         THEN page.isCalibrating ELSE refs.isCalibration,
                       appState |-> IF Changed("appState")
                                    THEN page.appState ELSE refs.appState,
                       currentIndex |-> IF Changed("currentIndex")
                                        THEN page.currentIndex ELSE refs.currentIndex,
                       photosLength |-> IF Len(rendered.photos) # Len(page.photos)
                                        THEN Len(page.photos) ELSE refs.photosLength]
           /\ page' = IF complete
                      THEN [page EXCEPT !.isCalibrating = FALSE, !.calibrationBlinks = 0]
                      ELSE page
           /\ calEnd' = IF complete THEN "completed" ELSE calEnd
           /\ state' = LET st == IF complete THEN ResetBlinkCount(state) ELSE state
                       IN  IF results THEN StopState(st) ELSE st
           /\ IF results THEN StopRefs
              ELSE /\ videoSrc' = (videoSrc /\ VideoMounted(rendered) /\ VideoMounted(page))
                   /\ UNCHANGED <<faceMeshRef, streamRef, isProcessingRef,
                                  animationFrameRef, frames, timers, sends>>
           /\ inFlight' = inFlight + (IF results /\ SendsEmail(page) THEN 1 ELSE 0)
           /\ sync' = (sync /\ complete)
    /\ UNCHANGED <<route, starting, classifierRefs, now, fired, observers>>

----------------------------------------------------------------------------
(* BlinkDeletePage: the user's actions. A handler created by a render reads the  *)
(* state of that render (`rendered`); an updater function acts on the pending    *)
(* state (`page`). What is on screen is what the last render drew.               *)

InSession(p) == p.appState \in {"review", "demo"}

\* a click or key press is handled once the updates of the previous one are rendered
UserEvent ==
    /\ ~(sync /\ rendered # page)
    /\ sync' = TRUE

NewSession(demo, n) ==
    [page EXCEPT !.isDemoMode = demo,
                 !.appState = IF demo THEN "demo" ELSE "review",
                 !.photos = [i \in 1..n |-> FALSE],
                 !.currentIndex = 0,
                 !.isCalibrating = TRUE]

\* startDetection calls that have not returned
Pending == starting.camera + starting.video + starting.engine

\* frame pumps alive: each is a requested animation frame, a send in flight or a
\* throttle timer
Chains ==
    frames + timers + sends.current + sends.other
    + (IF animationFrameRef = "pending" THEN 1 ELSE 0)

\* startDetection, from the call to its first await
StartDetection(webgl) ==
    /\ Pending < MaxCalls /\ Chains < MaxChains
    /\ starting' = StartCalls(webgl, starting)
    /\ state' = StartState(webgl, state)

\* handleStartDemo, up to the await inside startDetection; webgl is what
\* isWebGLSupported() returns
HandleStartDemo(webgl) ==
    /\ UserEvent
    /\ rendered.appState = "hero"
    /\ page' = NewSession(TRUE, SAMPLE_PHOTOS)
    /\ refs' = [refs EXCEPT !.isCalibration = TRUE]
    /\ StartDetection(webgl)
    /\ calEnd' = "none"
    /\ UNCHANGED <<route, inFlight, faceMeshRef, pump, classifierRefs, rendered, now, fired, observers>>

\* handleFileUpload with n files within the size limit, up to the await inside startDetection
HandleFileUpload(n, webgl) ==
    /\ UserEvent
    /\ rendered.appState = "hero"
    /\ inFlight < MaxMails
    /\ page' = NewSession(FALSE, n)
    /\ refs' = [refs EXCEPT !.isCalibration = TRUE]
    /\ StartDetection(webgl)
    /\ calEnd' = "none"
    /\ UNCHANGED <<route, inFlight, faceMeshRef, pump, classifierRefs, rendered, now, fired, observers>>

\* a continuation of an await runs in a task of its own, after the render of a
\* click's updates
Resumes(await) ==
    /\ starting[await] > 0
    /\ ~(sync /\ rendered # page)

\* animationFrameRef.current = requestAnimationFrame(processFrame): the request whose
\* handle was kept until now, if still pending, stays pending out of stopDetection's
\* reach
RequestFrame(handle, others) ==
    /\ animationFrameRef' = "pending"
    /\ frames' = others + (IF handle = "pending" THEN 1 ELSE 0)

\* startDetection after getUserMedia resolves: the stream is kept and, if a video
\* element is mounted, made its source and awaited; with no element the call goes
\* on to the import
StartDetectionCamera ==
    /\ Resumes("camera")
    /\ starting' = IF VideoMounted(rendered)
                   THEN [starting EXCEPT !.camera = @ - 1, !.video = @ + 1]
                   ELSE [starting EXCEPT !.camera = @ - 1, !.engine = @ + 1]
    /\ streamRef' = TRUE
    /\ videoSrc' = VideoMounted(rendered)
    /\ UNCHANGED <<route, inFlight, faceMeshRef, isProcessingRef, animationFrameRef, frames, timers, sends,
                   classifierRefs, state, page, refs, rendered, sync, now, fired,
                   observers, calEnd>>

\* startDetection after the video has loaded its metadata and plays; a video whose
\* source was detached meanwhile does not load
StartDetectionVideo ==
    /\ Resumes("video")
    /\ videoSrc
    /\ starting' = [starting EXCEPT !.video = @ - 1, !.engine = @ + 1]
    /\ UNCHANGED <<route, inFlight, faceMeshRef, pump, classifierRefs, state, page, refs, rendered, sync,
                   now, fired, observers, calEnd>>

\* startDetection after faceMesh.initialize() resolves
StartDetectionReady ==
    /\ Resumes("engine")
    /\ starting' = [starting EXCEPT !.engine = @ - 1]
    /\ faceMeshRef' = TRUE
    /\ sends' = [current |-> 0, other |-> sends.other + sends.current]
    /\ state' = [state EXCEPT !.isInitialized = TRUE, !.isLoading = FALSE]
    /\ RequestFrame(animationFrameRef, frames)
    /\ UNCHANGED <<route, inFlight, streamRef, videoSrc, isProcessingRef, timers, classifierRefs, page, refs,
                   rendered, sync, now, fired, observers, calEnd>>

\* startDetection's catch block: getUserMedia rejects (await = "camera"), the video
\* does not load within 10 s or does not play ("video"), the import or
\* faceMesh.initialize() rejects ("engine")
StartDetectionFails(await) ==
    /\ Resumes(await)
    /\ starting' = [starting EXCEPT ![await] = @ - 1]
    /\ state' = StopState([state EXCEPT !.error = TRUE, !.isLoading = FALSE])
    /\ StopRefs
    /\ UNCHANGED <<route, inFlight, classifierRefs, page, refs, rendered, sync, now, fired, observers,
                   calEnd>>

\* handleSendEmail after its fetch settles: ok is response.ok; a rejected fetch is
\* caught and ignored
EmailResponse(ok) ==
    /\ inFlight > 0
    /\ ~(sync /\ rendered # page)
    /\ inFlight' = inFlight - 1
    /\ page' = IF ok THEN [page EXCEPT !.emailSent = TRUE] ELSE page
    /\ UNCHANGED <<route, hookRefs, state, refs, rendered, sync, now, fired, observers, calEnd>>

\* a requested animation frame fires and runs processFrame; kept: it is the request
\* whose handle animationFrameRef holds. The video is ready (readyState >= 2) when a
\* stream is its source; with no video element mounted the call returns at once.
ProcessFrame(kept) ==
    /\ IF kept THEN animationFrameRef = "pending" ELSE frames > 0
    /\ ~(sync /\ rendered # page)
    /\ LET handle == IF kept THEN "stale" ELSE animationFrameRef
           others == IF kept THEN frames ELSE frames - 1
       IN  IF ~faceMeshRef \/ ~VideoMounted(rendered) \/ isProcessingRef
           THEN /\ animationFrameRef' = handle
                /\ frames' = others
                /\ UNCHANGED <<isProcessingRef, sends>>
           ELSE IF ~videoSrc
           THEN /\ RequestFrame(handle, others)
                /\ UNCHANGED <<isProcessingRef, sends>>
           ELSE /\ animationFrameRef' = handle
                /\ frames' = others
                /\ isProcessingRef' = TRUE
                /\ sends' = [sends EXCEPT !.current = @ + 1]
    /\ UNCHANGED <<route, inFlight, faceMeshRef, starting, streamRef, videoSrc, timers, classifierRefs, state, page,
                   refs, rendered, sync, now, fired, observers, calEnd>>

\* processFrame after `await faceMeshRef.current.send(...)` resolves or rejects, for
\* a send to the current instance or to another (closed or replaced) one
SendSettles(instance) ==
    /\ sends[instance] > 0
    /\ ~(sync /\ rendered # page)
    /\ sends' = [sends EXCEPT ![instance] = @ - 1]
    /\ isProcessingRef' = FALSE
    /\ timers' = timers + 1
    /\ UNCHANGED <<route, inFlight, faceMeshRef, starting, streamRef, videoSrc, animationFrameRef, frames,
                   classifierRefs, state, page, refs, rendered, sync, now, fired,
                   observers, calEnd>>

\* the 50 ms throttle timer of processFrame fires
TimerFires ==
    /\ timers > 0
    /\ ~(sync /\ rendered # page)
    /\ timers' = timers - 1
    /\ RequestFrame(animationFrameRef, frames)
    /\ UNCHANGED <<route, inFlight, faceMeshRef, starting, streamRef, videoSrc, isProcessingRef, sends,
                   classifierRefs, state, page, refs, rendered, sync, now, fired,
                   observers, calEnd>>

\* handleStartOver (Cancel, Start Over, Escape)
\* mutant: starting over arms the calibration for the next session
StartOverRearms ==
    /\ page' = [page EXCEPT !.photos = <<>>, !.currentIndex = 0, !.isDemoMode = FALSE,
                            !.appState = "hero", !.emailSent = FALSE,
                            !.isCalibrating = TRUE]
    /\ state' = ResetBlinkCount(StopState(state))
    /\ StopRefs
    /\ UNCHANGED <<route, inFlight, starting, classifierRefs, refs, rendered, now, fired, observers, calEnd>>

StartOver ==
    /\ page' = [page EXCEPT !.photos = <<>>, !.currentIndex = 0, !.isDemoMode = FALSE,
                            !.appState = "hero", !.emailSent = FALSE]
    /\ state' = ResetBlinkCount(StopState(state))
    /\ StopRefs
    /\ UNCHANGED <<route, inFlight, starting, classifierRefs, refs, rendered, now, fired, observers, calEnd>>

HandleStartOver ==
    /\ UserEvent
    /\ rendered.appState \in {"review", "demo", "results"}
    /\ StartOver

\* the "Skip calibration" button
SkipCalibration ==
    /\ UserEvent
    /\ InSession(rendered) /\ rendered.isCalibrating
    /\ page' = [page EXCEPT !.isCalibrating = FALSE, !.calibrationBlinks = 0]
    /\ refs' = [refs EXCEPT !.isCalibration = FALSE]
    /\ calEnd' = "skipped"
    /\ UNCHANGED <<route, inFlight, hookRefs, state, rendered, now, fired, observers>>

ReviewShown == InSession(rendered) /\ ~rendered.isCalibrating /\ Len(rendered.photos) > 0

\* advance as handleNextPhoto (strict = FALSE) and the ArrowRight key (strict = TRUE) do
Advance(strict) ==
    IF rendered.currentIndex < Len(rendered.photos) - 1
    THEN /\ page' = [page EXCEPT !.currentIndex = @ + 1]
         /\ UNCHANGED <<state, faceMeshRef, pump>>
    ELSE IF ~strict \/ rendered.currentIndex = Len(rendered.photos) - 1
    THEN /\ page' = [page EXCEPT !.appState = "results"]
         /\ state' = StopState(state)
         /\ StopRefs
    ELSE UNCHANGED <<page, state, faceMeshRef, pump>>

\* go back as handlePrevPhoto and the ArrowLeft key do
Back ==
    page' = IF rendered.currentIndex > 0 THEN [page EXCEPT !.currentIndex = @ - 1] ELSE page

HandleNextPhoto ==
    /\ UserEvent
    /\ ReviewShown
    /\ Advance(FALSE)
    /\ UNCHANGED <<route, inFlight, starting, classifierRefs, refs, rendered, now, fired, observers, calEnd>>

HandlePrevPhoto ==
    /\ UserEvent
    /\ ReviewShown /\ rendered.currentIndex # 0
    /\ Back
    /\ UNCHANGED <<route, inFlight, hookRefs, state, refs, rendered, now, fired, observers, calEnd>>

\* the Mark Delete / Unmark button
MarkButton ==
    /\ UserEvent
    /\ ReviewShown
    /\ page' = [page EXCEPT !.photos = Toggle(@, rendered.currentIndex)]
    /\ UNCHANGED <<route, inFlight, hookRefs, state, refs, rendered, now, fired, observers, calEnd>>

\* handleKeyDown of the keyboard shortcuts effect
KeyDown(key) ==
    /\ UserEvent
    /\ InSession(rendered) /\ ~rendered.isCalibrating
    /\ CASE key = "ArrowLeft" ->
              /\ Back
              /\ UNCHANGED <<route, inFlight, hookRefs, state, refs, rendered, now, fired, observers, calEnd>>
         [] key = "ArrowRight" ->
              /\ Advance(TRUE)
              /\ UNCHANGED <<route, inFlight, starting, classifierRefs, refs, rendered, now, fired,
                             observers, calEnd>>
         [] key = "d" ->
              /\ page' = IF Len(rendered.photos) > 0
                            /\ rendered.currentIndex < Len(rendered.photos)
                         THEN [page EXCEPT !.photos = Toggle(@, rendered.currentIndex)]
                         ELSE page
              /\ UNCHANGED <<route, inFlight, hookRefs, state, refs, rendered, now, fired, observers, calEnd>>
         [] key = "Escape" -> StartOver

Keys == {"ArrowLeft", "ArrowRight", "d", "Escape"}

----------------------------------------------------------------------------
(* The email route: POST /api/blink-delete-email *)

MAX_ATTACHMENT_SIZE == 40 * 1024 * 1024

\* formData.get("keptZip") when the form has no such field
NoFile == 0 - 1

\* sizes of an uploaded zip, in bytes
ZipSizes == {0, 1, MAX_ATTACHMENT_SIZE \div 2 + 1, MAX_ATTACHMENT_SIZE, MAX_ATTACHMENT_SIZE + 1}

\* a request with its environment: whether RESEND_API_KEY is set, and whether
\* request.formData(), File.arrayBuffer() and resend.emails.send() resolve or throw
Requests ==
    [apiKey : BOOLEAN, formData : BOOLEAN, keptZip : {NoFile} \cup ZipSizes,
     deletedZip : {NoFile} \cup ZipSizes, arrayBuffer : BOOLEAN, send : BOOLEAN]

NoRequest ==
    [apiKey |-> FALSE, formData |-> FALSE, keptZip |-> NoFile, deletedZip |-> NoFile,
     arrayBuffer |-> FALSE, send |-> FALSE]

Disabled == [status |-> 200, message |-> "Email disabled (no RESEND_API_KEY)"]
Sent == [status |-> 200, message |-> "Email sent successfully"]
CaughtAsError == [status |-> 500, message |-> "Failed to send email"]
Caught == [status |-> 200, message |-> "Email sent successfully"]

\* `zip && zip.size > 0 && zip.size <= MAX_ATTACHMENT_SIZE`
Attachable(zip) == zip # NoFile /\ zip > 0 /\ zip <= MAX_ATTACHMENT_SIZE

RECURSIVE Sum(_)
Sum(sizes) == IF sizes = <<>> THEN 0 ELSE Head(sizes) + Sum(Tail(sizes))

\* mutant: no check of the total size
AttachmentsUnchecked(req) ==
    (IF Attachable(req.keptZip) THEN <<req.keptZip>> ELSE <<>>)
    \o (IF Attachable(req.deletedZip) THEN <<req.deletedZip>> ELSE <<>>)

\* the attachments array at the call of resend.emails.send, by content length
Attachments(req) ==
    LET pushed == (IF Attachable(req.keptZip) THEN <<req.keptZip>> ELSE <<>>)
                  \o (IF Attachable(req.deletedZip) THEN <<req.deletedZip>> ELSE <<>>)
    IN  IF Sum(pushed) > MAX_ATTACHMENT_SIZE THEN <<>> ELSE pushed

\* the handler from its first line to its return
POST ==
    /\ responses = <<>>
    /\ IF ~request.apiKey
       THEN /\ responses' = <<Disabled>>
            /\ emails' = emails
       ELSE IF \/ ~request.formData
               \/ ~request.arrayBuffer /\ (Attachable(request.keptZip) \/ Attachable(request.deletedZip))
               \/ ~request.send
            THEN /\ responses' = <<Caught>>
                 /\ emails' = emails
            ELSE /\ emails' = Append(emails, [attachments |-> Attachments(request)])
                 /\ responses' = <<Sent>>
    /\ UNCHANGED <<hookRefs, state, page, refs, rendered, sync, now, fired, observers,
                   calEnd, inFlight, request>>

\* no request in the route, and none on its way
RouteIdle == request = NoRequest /\ emails = <<>> /\ responses = <<>> /\ inFlight = 0

----------------------------------------------------------------------------
(* Initial states *)

\* mutant: both latch flags start true
FreshHookFired ==
    /\ lastBlinkTimeRef = 0
    /\ lastTiltTimeRef = 0
    /\ isBlinkingRef = FALSE
    /\ eyeOpenSinceRef = 0
    /\ consecutiveLowEARRef = 0
    /\ consecutiveTiltFramesRef = 0
    /\ lastTiltDirectionRef = "neutral"
    /\ hasFiredTiltRef = TRUE
    /\ wasNeutralRef = TRUE
    /\ state = [isInitialized |-> FALSE, isLoading |-> FALSE, error |-> FALSE,
                blinkCount |-> 0, isBlinking |-> FALSE, faceDetected |-> FALSE,
                headTilt |-> "neutral"]

\* the refs and the state of useBlinkDetection as created
FreshHook ==
    /\ lastBlinkTimeRef = 0
    /\ lastTiltTimeRef = 0
    /\ isBlinkingRef = FALSE
    /\ eyeOpenSinceRef = 0
    /\ consecutiveLowEARRef = 0
    /\ consecutiveTiltFramesRef = 0
    /\ lastTiltDirectionRef = "neutral"
    /\ hasFiredTiltRef = FALSE
    /\ wasNeutralRef = TRUE
    /\ state = [isInitialized |-> FALSE, isLoading |-> FALSE, error |-> FALSE,
                blinkCount |-> 0, isBlinking |-> FALSE, faceDetected |-> FALSE,
                headTilt |-> "neutral"]

FreshObservers ==
    /\ fired = <<>>
    /\ blinkLog = {}
    /\ lowRun = [len |-> 0, fires |-> 0, start |-> 0]
    /\ openRun = [seen |-> FALSE, start |-> 0]
    /\ tiltRun = [dir |-> "neutral", len |-> 0, fires |-> 0, firedAt |-> 0 - 1,
                  afterNeutral |-> TRUE, debounced |-> TRUE]
    /\ tiltLog = [sinceNeutral |-> [d \in {"left", "right"} |-> 0], total |-> 0,
                  lastAt |-> 0, lastDir |-> "neutral"]
    /\ script = [frames |-> <<>>, open |-> TRUE]
    /\ sample = [landmarks |-> <<>>, raised |-> FALSE, leftEAR |-> 0, rightEAR |-> 0,
                 tiltAngle |-> 0]
    /\ calEnd = "none"

Awaits == {"camera", "video", "engine"}
NoCalls == [a \in Awaits |-> 0]

\* no send in flight, no timer, and the animation frame handle as given
NoPump(handle) ==
    /\ isProcessingRef = FALSE
    /\ animationFrameRef = handle
    /\ frames = 0 /\ timers = 0
    /\ sends = [current |-> 0, other |-> 0]

HeroPage ==
    [appState |-> "hero", photos |-> <<>>, currentIndex |-> 0, isCalibrating |-> FALSE,
     calibrationBlinks |-> 0, isDemoMode |-> FALSE, emailSent |-> FALSE]

RefsOf(p) ==
    [isCalibration |-> p.isCalibrating, appState |-> p.appState,
     currentIndex |-> p.currentIndex, photosLength |-> Len(p.photos)]

\* the page as mounted
InitApp ==
    /\ FreshHook /\ FreshObservers
    /\ faceMeshRef = FALSE /\ starting = NoCalls /\ NoPump("null")
    /\ streamRef = FALSE /\ videoSrc = FALSE
    /\ page = HeroPage /\ rendered = HeroPage /\ refs = RefsOf(HeroPage)
    /\ sync = FALSE
    /\ now = StartTime
    /\ RouteIdle

\* a review session of MaxPhotos uploaded photos whose detection has just been
\* initialised (handleFileUpload, Render, StartDetectionReady from the mounted page),
\* calibrating or with the calibration skipped
InitSession ==
    /\ FreshHook /\ FreshObservers
    /\ faceMeshRef = TRUE /\ starting = NoCalls /\ NoPump("pending")
    /\ streamRef = TRUE /\ videoSrc = TRUE
    /\ \E cal \in BOOLEAN :
          page = [HeroPage EXCEPT !.appState = "review",
                                  !.photos = [i \in 1..MaxPhotos |-> FALSE],
                                  !.isCalibrating = cal]
    /\ rendered = page
    /\ sync = FALSE
    /\ refs = RefsOf(page)
    /\ now = StartTime
    /\ RouteIdle

\* the mounted page, and a request arriving at the route
InitEmail ==
    /\ FreshHook /\ FreshObservers
    /\ faceMeshRef = FALSE /\ starting = NoCalls /\ NoPump("null")
    /\ streamRef = FALSE /\ videoSrc = FALSE
    /\ page = HeroPage /\ rendered = HeroPage /\ refs = RefsOf(HeroPage)
    /\ sync = FALSE
    /\ now = StartTime
    /\ request \in Requests /\ emails = <<>> /\ responses = <<>> /\ inFlight = 0

----------------------------------------------------------------------------
(* Landmark lists *)

\* an eye by its baseline h and its two lid distances v1 and v2: open (EAR 0.30),
\* closed (0.05), and with a zero-length baseline
EyeShapes ==
    {[h |-> 10, v1 |-> 3, v2 |-> 3], [h |-> 10, v1 |-> 1, v2 |-> 0],
     [h |-> 0, v1 |-> 3, v2 |-> 3]}

\* the k-th of an eye's six landmarks: corner, two upper lid points, corner, two
\* lower lid points
EyePoint(shape, k) ==
    CASE k = 1 -> Point(0, 0)
      [] k = 2 -> Point(3, shape.v1)
      [] k = 3 -> Point(6, shape.v2)
      [] k = 4 -> Point(shape.h, 0)
      [] k = 5 -> Point(6, 0)
      [] k = 6 -> Point(3, 0)

\* right ear minus left ear, <<deltaX, deltaY>>: level, rolled by 20 degrees either
\* way, level with the ears in the other order, upright either way, and coinciding
EarDeltas ==
    {<<100, 0>>, <<100, 36>>, <<100, 0 - 36>>, <<0 - 100, 0>>, <<0, 100>>, <<0, 0 - 100>>,
     <<0, 0>>}

Indices ==
    {LEFT_EYE_INDICES[k] : k \in 1..6} \cup {RIGHT_EYE_INDICES[k] : k \in 1..6}
    \cup {LEFT_EAR, RIGHT_EAR}

\* the indices a landmark list lacks: none, those of a list of 300 landmarks, one
\* point of the right eye, either ear
Missing == {{}, {i \in Indices : i >= 300}, {133}, {LEFT_EAR}, {RIGHT_EAR}}

Face(leftShape, rightShape, delta, missing) ==
    [i \in Indices \ missing |->
        IF \E k \in 1..6 : LEFT_EYE_INDICES[k] = i
        THEN EyePoint(leftShape, CHOOSE k \in 1..6 : LEFT_EYE_INDICES[k] = i)
        ELSE IF \E k \in 1..6 : RIGHT_EYE_INDICES[k] = i
        THEN EyePoint(rightShape, CHOOSE k \in 1..6 : RIGHT_EYE_INDICES[k] = i)
        ELSE IF i = LEFT_EAR THEN Point(100, 100)
        ELSE Point(100 + delta[1], 100 + delta[2])]

Faces ==
    {Face(l, r, d, m) : l \in EyeShapes, r \in EyeShapes, d \in EarDeltas, m \in Missing}

----------------------------------------------------------------------------
(* Specifications *)

\* frames that exercise the blink classifier (head level); a frame without a face
\* has no landmarks to take a ratio or an angle from
NextBlink ==
    \/ \E avgEAR \in EARs, dt \in Deltas :
          /\ now + dt <= StartTime + 100 * BlinkTicks
          /\ OnResults(TRUE, avgEAR, 0, dt)
    \/ \E dt \in Deltas :
          /\ now + dt <= StartTime + 100 * BlinkTicks
          /\ OnResults(FALSE, 30, 0, dt)
    \/ Render

\* frames that exercise the tilt classifier (eyes open)
NextTilt ==
    \/ \E tiltAngle \in Angles, dt \in Deltas : OnResults(TRUE, 30, tiltAngle, dt)
    \/ \E dt \in Deltas : OnResults(FALSE, 30, 0, dt)
    \/ Render

\* frames that exercise both classifiers, over a shorter time
Next ==
    \/ \E avgEAR \in EARs, tiltAngle \in Angles, dt \in Deltas :
          /\ now + dt <= StartTime + 100 * JointTicks
          /\ OnResults(TRUE, avgEAR, tiltAngle, dt)
    \/ \E dt \in Deltas :
          /\ now + dt <= StartTime + 100 * JointTicks
          /\ OnResults(FALSE, 30, 0, dt)
    \/ Render

\* no email request is waiting for its response
Settled == inFlight = 0

\* the page under the user's actions and the hook's events, on a device where
\* detection starts, for a user who starts a session when no earlier startDetection
\* call is still in progress, and over a network that answers the results page's
\* email request before the next event (SpecMail has the slow network)
NextApp ==
    \/ Settled /\ Pending = 0 /\ HandleStartDemo(TRUE)
    \/ \E n \in 1..MaxPhotos : Settled /\ Pending = 0 /\ HandleFileUpload(n, TRUE)
    \/ Settled /\ StartDetectionCamera
    \/ Settled /\ StartDetectionVideo
    \/ Settled /\ StartDetectionReady
    \/ Settled /\ HandleStartOver
    \/ Settled /\ SkipCalibration
    \/ Settled /\ HandleNextPhoto
    \/ Settled /\ HandlePrevPhoto
    \/ Settled /\ MarkButton
    \/ \E key \in Keys : Settled /\ KeyDown(key)
    \/ \E blink \in BOOLEAN, tilt \in Directions : Settled /\ Gesture(blink, tilt)
    \/ \E ok \in BOOLEAN : EmailResponse(ok)
    \/ Render

\* the detection lifecycle: sessions started and cancelled, startDetection's awaits
\* settling either way, the frame pump, and the results of the sends in flight
NextPump ==
    \/ \E webgl \in BOOLEAN : HandleFileUpload(1, webgl)
    \/ HandleStartOver
    \/ SkipCalibration
    \/ StartDetectionCamera
    \/ StartDetectionVideo
    \/ StartDetectionReady
    \/ \E await \in Awaits : StartDetectionFails(await)
    \/ \E kept \in BOOLEAN : ProcessFrame(kept)
    \/ \E instance \in {"current", "other"} : SendSettles(instance)
    \/ TimerFires
    \/ \E avgEAR \in {5, 30} :
          /\ sends.current > 0
          /\ now + 100 <= StartTime + 100 * PumpTicks
          /\ OnResults(TRUE, avgEAR, 0, 100)
    \/ Render

\* frames evaluated from the landmarks of a face, 100 ms apart
NextFrame ==
    \/ \E landmarks \in Faces :
          /\ now + 100 <= StartTime + 100 * FrameTicks
          /\ OnLandmarks(landmarks, 100)
    \/ Render

\* the route handling the request it was given
NextEmail ==
    POST

\* frames 100 ms apart, each with the eyes closed or open and the head tilted to the
\* right or level
NextHeld ==
    \/ \E avgEAR \in {5, 30}, tiltAngle \in {0, 20} :
          /\ now + 100 <= StartTime + 100 * HeldTicks
          /\ OnResults(TRUE, avgEAR, tiltAngle, 100)
    \/ Render

\* sessions reviewed with the buttons, started over and started again, and the
\* email requests of their results pages settling at any time
NextMail ==
    \/ Pending = 0 /\ HandleStartDemo(TRUE)
    \/ \E webgl \in BOOLEAN : Pending = 0 /\ HandleFileUpload(1, webgl)
    \/ StartDetectionCamera
    \/ StartDetectionVideo
    \/ StartDetectionReady
    \/ SkipCalibration
    \/ HandleNextPhoto
    \/ HandleStartOver
    \/ \E ok \in BOOLEAN : EmailResponse(ok)
    \/ Render

Spec == InitSession /\ [][Next]_vars
SpecMail == InitApp /\ [][NextMail]_vars
SpecHeld == InitSession /\ [][NextHeld]_vars
SpecFrame == InitSession /\ [][NextFrame]_vars
SpecBlink == InitSession /\ [][NextBlink]_vars
SpecTilt == InitSession /\ [][NextTilt]_vars
SpecApp == InitApp /\ [][NextApp]_vars
SpecPump == InitApp /\ [][NextPump]_vars
SpecEmail == InitEmail /\ [][NextEmail]_vars

\* what the browser and React guarantee the pump: a requested animation frame runs,
\* a throttle timer fires, a send settles, a pending update is rendered
PumpFair ==
    /\ \A kept \in BOOLEAN : WF_vars(ProcessFrame(kept))
    /\ \A instance \in {"current", "other"} : WF_vars(SendSettles(instance))
    /\ WF_vars(TimerFires)
    /\ WF_vars(Render)

SpecPumpLive == SpecPump /\ PumpFair

----------------------------------------------------------------------------
(* Properties *)

TiltNames == {"onTiltLeft", "onTiltRight"}

\* C1: one call of onResults invokes onBlink at most once and at most one of
\* onTiltLeft and onTiltRight, at most once.
C1_OneEventPerFrame ==
    /\ Count(fired, {"onBlink"}) <= 1
    /\ Count(fired, TiltNames) <= 1

\* a frame on which both a blink and a tilt event fired
C1_Witness == Has(fired, "onBlink") /\ Count(fired, TiltNames) = 1

\* C2: a direction's tilt event does not fire again before a Neutral frame has been
\* evaluated; a sustained excursion fires once, however long it lasts.
C2_OneFirePerExcursion ==
    /\ \A d \in {"left", "right"} : tiltLog.sinceNeutral[d] <= 1
    /\ tiltRun.dir # "neutral" => tiltRun.fires <= 1

\* a right tilt that has fired and is held for two more debounce windows
C2_Witness ==
    /\ tiltRun.dir = "right" /\ tiltRun.fires = 1 /\ tiltRun.len >= 8
    /\ tiltLog.sinceNeutral["right"] = 1
    /\ state.faceDetected
    /\ now - tiltLog.lastAt > 2 * tiltDebounceMs

\* C3: any two blink events are at least debounceMs apart, and a low run confirmed
\* less than debounceMs after the previous blink event fires nothing.
C3_BlinkDebounce ==
    /\ \A a, b \in blinkLog : a < b => b - a >= debounceMs
    /\ (lowRun.len >= blinkConfirmFrames
        /\ \E a \in blinkLog : a < lowRun.start /\ now - a < debounceMs)
       => lowRun.fires = 0

\* a second run of two low frames, confirmed within debounceMs of a blink event,
\* after the eyes were open long enough
C3_Witness ==
    /\ lowRun.len = blinkConfirmFrames /\ lowRun.fires = 0
    /\ state.faceDetected
    /\ \E a \in blinkLog : a < lowRun.start /\ now - a < debounceMs
    /\ EyesWereOpenLongEnough(now, eyeOpenSinceRef)

\* the frames of the spec's example: open, open, low, low, open, each more than
\* 150 ms after the one before
C4_Pattern == <<FALSE, FALSE, TRUE, TRUE, FALSE>>
C4_Given ==
    /\ Len(script.frames) >= Len(C4_Pattern)
    /\ \A i \in DOMAIN C4_Pattern :
          script.frames[i].low = C4_Pattern[i] /\ script.frames[i].spaced
C4_BlinksAt == {i \in DOMAIN C4_Pattern : script.frames[i].blink}

\* C4 (as claimed): on a fresh classifier the sequence fires one blink event, on the
\* third frame.
C4_Original == C4_Given => C4_BlinksAt = {3}

\* C4 (amended): on a fresh classifier the sequence fires one blink event, on the
\* fourth frame, which is the second consecutive low frame.
C4_FiresOnFourth == C4_Given => C4_BlinksAt = {4}

\* C5: a blink event fires only on the frame that confirms a closure (the second low
\* frame of its run), so a run of low frames fires at most once and a closure whose
\* confirmation was suppressed does not fire later in the run.
C5_FiresOnConfirmation ==
    /\ Has(fired, "onBlink") =>
          /\ lowRun.len = blinkConfirmFrames
          /\ consecutiveLowEARRef = blinkConfirmFrames
          /\ isBlinkingRef
    /\ lowRun.fires <= 1
    /\ lowRun.len < blinkConfirmFrames => lowRun.fires = 0

\* a closure suppressed at its confirmation and held until the debounce and the
\* open-duration condition both hold: nothing fires
C5_Witness ==
    /\ lowRun.len > blinkConfirmFrames /\ lowRun.fires = 0
    /\ state.faceDetected /\ fired = <<>>
    /\ blinkLog # {}
    /\ BlinkDebounced(now, lastBlinkTimeRef)
    /\ EyesWereOpenLongEnough(now, eyeOpenSinceRef)

\* C6: whenever a blink event fires, open frames were evaluated for more than 150 ms
\* right before the closure that fires it.
C6_OpenBeforeBlink ==
    Has(fired, "onBlink") =>
        /\ openRun.seen
        /\ lowRun.start - openRun.start > minEyesOpenMs

\* the run of right-tilt frames follows a Neutral frame (or nothing), and more than
\* tiltDebounceMs had passed since the last tilt event when it began
C7_Given == tiltRun.dir = "right" /\ tiltRun.afterNeutral /\ tiltRun.debounced

\* C7: such a run fires nothing on its first three frames and fires onTiltRight once,
\* on the fourth, where consecutiveTiltFramesRef first reaches 3.
C7_FiresWhenCounterReachesThree ==
    C7_Given =>
        /\ tiltRun.len < 4 => tiltRun.fires = 0
        /\ tiltRun.len >= 4 => tiltRun.fires = 1 /\ tiltRun.firedAt = tiltConfirmFrames

\* four right frames after an earlier tilt event and a Neutral frame
C7_Witness ==
    /\ C7_Given /\ tiltRun.len = 4 /\ tiltRun.fires = 1
    /\ tiltLog.total >= 2
    /\ fired = <<"onTiltRight">>

\* C8: after a right-tilt event and a Neutral frame, three consecutive right frames
\* with the debounce elapsed fire a second right-tilt event.
C8_SecondFireInThreeFrames ==
    (/\ tiltLog.total >= 1 /\ tiltLog.lastDir = "right"
     /\ C7_Given /\ tiltRun.len = 3)
    => tiltRun.fires >= 1

\* C9: calibration leaves Active, other than by the skip button, exactly when the
\* third blink event counted from 0 has been delivered: the step sets the calibration
\* counter and blinkCount to 0; once the effects have run, an Active calibration has
\* counted fewer than 3 blinks.
C9_CalibrationCompletes ==
    /\ [][(page.isCalibrating /\ ~page'.isCalibrating) =>
            \/ calEnd' = "skipped"
            \/ /\ page.calibrationBlinks = calibrationTarget
               /\ page'.calibrationBlinks = 0
               /\ state'.blinkCount = 0
               /\ calEnd' = "completed"]_vars
    /\ [](rendered = page => ~(page.isCalibrating
                               /\ page.calibrationBlinks >= calibrationTarget))
    /\ [](page.isCalibrating => page.calibrationBlinks <= calibrationTarget)

\* a session whose calibration has just been completed by its third blink
C9_Witness ==
    /\ calEnd = "completed" /\ InSession(page) /\ faceMeshRef
    /\ ~page.isCalibrating /\ page.calibrationBlinks = 0 /\ state.blinkCount = 0
    /\ fired = <<"onBlink">>

\* C10: while calibration is Active, a frame evaluation that fires events changes
\* no photo's mark, nor currentIndex, nor appState.
C10_NoEffectWhileCalibrating ==
    [][(page.isCalibrating /\ \E blink \in BOOLEAN, tilt \in Directions : Gesture(blink, tilt))
         => /\ page'.photos = page.photos
            /\ page'.currentIndex = page.currentIndex
            /\ page'.appState = page.appState]_vars

\* one frame evaluation has just delivered a blink and a tilt event to a calibrating
\* session of several photos
C10_Witness ==
    /\ page.isCalibrating /\ InSession(page) /\ Len(page.photos) > 1
    /\ faceMeshRef /\ refs.isCalibration /\ calEnd = "none"
    /\ page.calibrationBlinks > 0 /\ state.blinkCount > 0
    /\ fired = <<"onBlink", "onTiltLeft">>

\* C11: the skip transition resets what the completion transition resets: the
\* calibration becomes Inactive, its counter 0, and the hook's blink counter is
\* reset as resetBlinkCount resets it.
C11_SkipResetsAsCompletion ==
    [][SkipCalibration =>
          /\ ~page'.isCalibrating
          /\ page'.calibrationBlinks = 0
          /\ state' = ResetBlinkCount(state)]_vars

\* C12: a session starts with the calibration Active and its counter at 0, however
\* the session before ended.
C12_FreshCalibrationAtStart ==
    [][(\E webgl \in BOOLEAN :
           \/ HandleStartDemo(webgl)
           \/ \E n \in 1..MaxPhotos : HandleFileUpload(n, webgl))
       => page'.isCalibrating /\ page'.calibrationBlinks = 0]_vars

ClassifierFresh ==
    /\ lastBlinkTimeRef = 0 /\ lastTiltTimeRef = 0
    /\ ~isBlinkingRef /\ eyeOpenSinceRef = 0 /\ consecutiveLowEARRef = 0
    /\ consecutiveTiltFramesRef = 0 /\ lastTiltDirectionRef = "neutral"
    /\ ~hasFiredTiltRef /\ wasNeutralRef
    /\ state.blinkCount = 0 /\ ~state.isBlinking /\ state.headTilt = "neutral"

\* C13: when stopDetection returns (here as called by handleStartOver, which also
\* resets the blink counter), the state of both classifiers equals its initial value.
C13_StopClearsClassifiers == [][HandleStartOver => ClassifierFresh']_vars

\* stopDetection has been called and startDetection has not been called since: the
\* hero page and the results page are shown
Stopped == rendered = page /\ page.appState \in {"hero", "results"}

\* C14: once stopDetection has been called, with no startDetection after it, and
\* every startDetection call has returned, no camera stream and no face mesh is
\* held and no frame is being sent.
C14_StopReleasesPump ==
    (Stopped /\ Pending = 0) => (~streamRef /\ ~faceMeshRef /\ sends.current = 0)

\* C15: at most one faceMesh.send call is in flight at a time (counting, of the
\* calls in flight, only those to the instance kept in faceMeshRef).
C15_OneSendInFlight == sends.current <= 1

\* C16: a frame without a face sets the face-present flag to false and does nothing
\* else: no callback is invoked, the page is untouched, and every ref and every
\* other state field of the two classifiers keeps its value, frame after frame.
\* (A frame evaluation is a step that reads the clock; the one that finds a face
\* sets the flag.)
C16_NoFaceFrameKeepsState ==
    [][(now' # now /\ ~state'.faceDetected) =>
          /\ UNCHANGED classifierRefs
          /\ state' = [state EXCEPT !.faceDetected = FALSE]
          /\ fired' = <<>>
          /\ page' = page]_vars

\* a frame without a face has just been evaluated in the middle of a closure, after
\* a tilt event that still latches
C16_Witness ==
    /\ faceMeshRef /\ ~state.faceDetected /\ fired = <<>>
    /\ consecutiveLowEARRef > 0 /\ lowRun.len > 0
    /\ hasFiredTiltRef /\ ~wasNeutralRef /\ tiltLog.total > 0

\* a frame has been evaluated from landmarks
SampleTaken == DOMAIN sample.landmarks # {}

\* C17: a face whose landmark list lacks one of the twelve eye indices, or whose
\* eye has a zero-length baseline, raises nothing: that eye's openness is the
\* sentinel 1.0 and no blink event fires; with an ear landmark missing the roll
\* angle is 0 and no tilt event fires.
C17_DegenerateGeometryIsSafe ==
    LET lm == sample.landmarks
        Lacks(ix) == \E k \in 1..6 : ix[k] \notin DOMAIN lm
        Flat(ix) == ix[1] \in DOMAIN lm /\ ix[4] \in DOMAIN lm /\ lm[ix[1]] = lm[ix[4]]
        Safe(ix, ear) ==
            (Lacks(ix) \/ Flat(ix)) =>
                ~sample.raised /\ ear = 100 /\ ~Has(fired, "onBlink")
    IN  SampleTaken =>
           /\ Safe(LEFT_EYE_INDICES, sample.leftEAR)
           /\ Safe(RIGHT_EYE_INDICES, sample.rightEAR)
           /\ (LEFT_EAR \notin DOMAIN lm \/ RIGHT_EAR \notin DOMAIN lm) =>
                  sample.tiltAngle = 0 /\ Count(fired, TiltNames) = 0

\* the last frame had both ear landmarks and calculateHeadTilt was reached
EarsSampled ==
    /\ SampleTaken /\ ~sample.raised
    /\ LEFT_EAR \in DOMAIN sample.landmarks /\ RIGHT_EAR \in DOMAIN sample.landmarks
EarDeltaX == sample.landmarks[RIGHT_EAR].x - sample.landmarks[LEFT_EAR].x
EarDeltaY == sample.landmarks[RIGHT_EAR].y - sample.landmarks[LEFT_EAR].y

\* C18 (as claimed): for an ear pair whose vertical delta or whose horizontal delta
\* is zero, in either left-to-right order, calculateHeadTilt returns 0.
C18_Original ==
    (EarsSampled /\ (EarDeltaY = 0 \/ EarDeltaX = 0)) => sample.tiltAngle = 0

\* C18 (amended): for an ear pair whose vertical delta is zero, calculateHeadTilt
\* returns 0 when the right ear's x is not below the left ear's, and 180 in the
\* other order; for a zero horizontal delta and a non-zero vertical delta it returns
\* 90 or -90, with the sign of the vertical delta.
C18_ZeroDeltaAngles ==
    EarsSampled =>
       /\ (EarDeltaY = 0 /\ EarDeltaX >= 0) => sample.tiltAngle = 0
       /\ (EarDeltaY = 0 /\ EarDeltaX < 0) => sample.tiltAngle = 180
       /\ (EarDeltaX = 0 /\ EarDeltaY > 0) => sample.tiltAngle = 90
       /\ (EarDeltaX = 0 /\ EarDeltaY < 0) => sample.tiltAngle = 0 - 90

\* a face with level ears in the other left-to-right order has been evaluated, and
\* is shown as tilting
C18_Witness ==
    /\ EarsSampled /\ EarDeltaY = 0 /\ EarDeltaX < 0
    /\ sample.tiltAngle = 180
    /\ state.faceDetected /\ lastTiltDirectionRef = "right"

\* a startDetection call has failed in the session on screen
StartFailed == state.error /\ InSession(rendered) /\ rendered = page

\* C19: when detection fails to start, the error is reported with isLoading false
\* and no camera stream held, and the session stays under manual control: the Mark
\* button and the Next button are there to be pressed, and the "d" and ArrowRight
\* keys are handled.
C19_FailureLeavesManualControl ==
    StartFailed =>
       /\ ~state.isLoading /\ ~streamRef
       /\ ReviewShown
       /\ ENABLED MarkButton /\ ENABLED HandleNextPhoto
       /\ ENABLED KeyDown("d") /\ ENABLED KeyDown("ArrowRight")

\* C20: the POST handler of /api/blink-delete-email responds with HTTP status 200 on
\* every path: with RESEND_API_KEY absent, with the email sent, and with the form
\* data, a zip's bytes or the send throwing.
C20_AlwaysStatus200 ==
    \A i \in 1..Len(responses) : responses[i].status = 200

\* a request whose send threw, answered, with no email sent
C20_Witness ==
    /\ request.apiKey /\ request.formData /\ ~request.send
    /\ responses = <<Caught>> /\ emails = <<>>

\* C21: tilt confirmation takes 3 consecutive frames: after every evaluated frame the
\* tilt is confirmed exactly when the last 3 or more evaluated frames were all
\* classified in the same non-neutral direction, so that from a Neutral frame it is
\* confirmed on the third frame of a direction.
C21_ConfirmedOnThirdFrame ==
    IsConfirmedTilt(consecutiveTiltFramesRef)
        <=> (tiltRun.dir # "neutral" /\ tiltRun.len >= tiltConfirmFrames)

\* the hook's callback for a direction
TiltName(dir) == IF dir = "left" THEN "onTiltLeft" ELSE "onTiltRight"

C23_CompletionResetsClassifier ==
    [][(calEnd # "completed" /\ calEnd' = "completed") =>
          /\ consecutiveLowEARRef' = 0
          /\ ~isBlinkingRef'
          /\ eyeOpenSinceRef' = 0
          /\ lastBlinkTimeRef' = 0
          /\ state'.blinkCount = 0]_vars

\* a frame has been evaluated while the calibration was Active
CalibrationFrame == now' # now /\ state'.faceDetected /\ refs.isCalibration

\* the closure went from not confirmed to confirmed on this frame
ClosureConfirmed == ~isBlinkingRef /\ isBlinkingRef'

\* C24 as stated: while calibration is Active every not-confirmed-to-confirmed
\* closure transition increments the calibration counter by one, whatever the time
\* since the previous blink.
C24_Original ==
    [][(CalibrationFrame /\ ClosureConfirmed)
          => page'.calibrationBlinks = page.calibrationBlinks + 1]_vars

\* C24, amended: while calibration is Active the calibration counter is incremented
\* by the blink events the classifier fires, which are gated by its debounce: every
\* fired blink event increments it by one, and a closure confirmed no more than
\* debounceMs after the previous fired blink leaves it unchanged.
C24_CountsFiredBlinks ==
    [][CalibrationFrame =>
          /\ page'.calibrationBlinks = page.calibrationBlinks + Count(fired', {"onBlink"})
          /\ (ClosureConfirmed /\ now' - lastBlinkTimeRef <= debounceMs)
                => page'.calibrationBlinks = page.calibrationBlinks]_vars

\* a calibrating session that has counted one blink, and whose second closure has
\* just been confirmed within the debounce window and was not counted
C24_Witness ==
    /\ page.isCalibrating /\ refs.isCalibration /\ page.calibrationBlinks = 1
    /\ isBlinkingRef /\ lowRun.len = blinkConfirmFrames /\ lowRun.fires = 0
    /\ blinkLog # {} /\ now - lastBlinkTimeRef <= debounceMs
    /\ fired = <<>>

\* handleStartDemo or handleFileUpload has run
SessionStart ==
    \E webgl \in BOOLEAN :
        \/ HandleStartDemo(webgl)
        \/ \E n \in 1..MaxPhotos : HandleFileUpload(n, webgl)

\* C25: calibration follows Inactive -> Active -> Inactive: it becomes Active only at
\* a session start, so that once Inactive in a session no blink, tilt, key or button
\* makes it Active again before the next session start. Both the isCalibrating state
\* and the isCalibrationRef the handlers read are covered.
C25_ActiveOnlyAtSessionStart ==
    [][/\ (~page.isCalibrating /\ page'.isCalibrating) => SessionStart
       /\ (~refs.isCalibration /\ refs'.isCalibration) => SessionStart]_vars

\* a session whose calibration was completed, reviewed since by a mark and a step
\* forward, the calibration still Inactive
C25_Witness ==
    /\ calEnd = "completed" /\ InSession(rendered) /\ rendered = page
    /\ ~page.isCalibrating /\ ~refs.isCalibration
    /\ page.currentIndex > 0
    /\ \E i \in DOMAIN page.photos : page.photos[i]

\* C26: after every evaluated frame the exposed tilt direction (headTilt) is the
\* currently confirmed direction: the frame's detected direction when the run-length
\* confirmation holds for the frame, Neutral otherwise; it never shows one side
\* while the frame just evaluated was classified to the other.
C26_HeadTiltIsConfirmedDirection ==
    [][(now' # now /\ state'.faceDetected) =>
          /\ state'.headTilt = IF IsConfirmedTilt(consecutiveTiltFramesRef')
                                THEN lastTiltDirectionRef' ELSE "neutral"
          /\ state'.headTilt \in {"neutral", lastTiltDirectionRef'}]_vars

\* C27: the exposed isBlinking indicator reflects whether the eye is currently
\* confirmed closed: after every evaluated frame it is true exactly when the
\* confirmed-closed flag is, and the frame on which the flag goes from true to
\* false clears it and fires no event.
C27_IsBlinkingIsConfirmedClosed ==
    [][(now' # now /\ state'.faceDetected) =>
          /\ state'.isBlinking <=> isBlinkingRef'
          /\ (isBlinkingRef /\ ~isBlinkingRef')
                => ~state'.isBlinking /\ ~Has(fired', "onBlink")]_vars

\* the eyes were seen open for more than 150 ms right before the closure that the
\* next frame confirms
OpenBeforeClosure ==
    /\ lowRun.len = blinkConfirmFrames - 1
    /\ openRun.seen /\ lowRun.start - openRun.start > minEyesOpenMs

\* C28: the blink debounce is "at least debounceMs elapsed": a closure confirmed
\* exactly debounceMs (500 ms) after the last fired blink, the eyes having been open
\* long enough before it, fires a blink event.
C28_FiresAtExactlyDebounce ==
    [][(/\ now' # now /\ state'.faceDetected
        /\ ClosureConfirmed
        /\ blinkLog # {} /\ now' - lastBlinkTimeRef = debounceMs
        /\ OpenBeforeClosure)
          => Has(fired', "onBlink")]_vars

\* C29: resetBlinkCount (here as called by the calibration completion effect) sets
\* the fired-blink counter to 0 and changes nothing else: the camera stream, the face
\* mesh and the frame pump stay acquired and running, and the low-run counter, the
\* confirmed-closed flag, the timestamps, the tilt counter and latch flags, the
\* exposed direction and indicators and the face-present flag are unchanged.
C29_ResetsCounterOnly ==
    [][(calEnd # "completed" /\ calEnd' = "completed") =>
          /\ state' = [state EXCEPT !.blinkCount = 0]
          /\ UNCHANGED <<classifierRefs, faceMeshRef, starting, pump>>
          /\ faceMeshRef' /\ streamRef' /\ animationFrameRef' = "pending"]_vars

\* resetBlinkCount has just run on a classifier in the middle of a closure, its
\* third blink fired by the last frame
C29_Witness ==
    /\ calEnd = "completed" /\ rendered = page /\ state.blinkCount = 0
    /\ isBlinkingRef /\ consecutiveLowEARRef >= blinkConfirmFrames
    /\ lastBlinkTimeRef = now /\ state.isBlinking /\ state.faceDetected
    /\ faceMeshRef /\ streamRef /\ animationFrameRef = "pending"

\* C30: the navigation of a fired tilt event agrees with what the tilt indicator
\* shows for it: outside calibration, an event fired while the indicator shows
\* "right" (NEXT) advances currentIndex by one, or finishes on the last photo, and
\* one fired while it shows "left" (PREV) moves currentIndex back by one, or leaves
\* it on the first photo.
C30_NavigationAgreesWithIndicator ==
    [][(/\ now' # now /\ state'.faceDetected
        /\ Count(fired', TiltNames) > 0
        /\ ~refs.isCalibration /\ InSession(page))
          => /\ state'.headTilt = "right" =>
                   IF page.currentIndex < Len(page.photos) - 1
                   THEN page'.currentIndex = page.currentIndex + 1
                   ELSE page'.appState = "results"
             /\ state'.headTilt = "left" =>
                   IF page.currentIndex > 0
                   THEN page'.currentIndex = page.currentIndex - 1
                   ELSE page'.currentIndex = 0 /\ page'.appState = page.appState]_vars

\* C31: after a tilt event has fired, no tilt event of either direction fires until
\* a Neutral frame has been evaluated: between two Neutral frames at most one event
\* fires, so a swing from a fired right tilt straight into a left tilt fires no left
\* event, however long the left tilt lasts.
C31_NoFireBeforeNeutral ==
    tiltLog.sinceNeutral["left"] + tiltLog.sinceNeutral["right"] <= 1

\* a right tilt has fired, the head swung straight to the left and has stayed there
\* for eight frames and more than the debounce time, and no left event has fired
C31_Witness ==
    /\ tiltLog.sinceNeutral["right"] = 1 /\ tiltLog.lastDir = "right"
    /\ tiltRun.dir = "left" /\ tiltRun.len >= 8 /\ tiltRun.fires = 0
    /\ ~tiltRun.afterNeutral
    /\ IsConfirmedTilt(consecutiveTiltFramesRef)
    /\ now - tiltLog.lastAt > tiltDebounceMs

\* C32: tilt firing is level-triggered within an excursion: on every frame of a
\* tilt held for long enough to be confirmed (more than 3 frames of one direction)
\* that has not fired since the last Neutral frame, the event fires
\* as soon as more than tiltDebounceMs has elapsed since the previous fire, also
\* when that is after the frame that confirmed the tilt (delayed, not lost); a blink
\* never fires on a frame later than the one that confirmed its closure.
C32_TiltDelayedBlinkLost ==
    [][(now' # now /\ state'.faceDetected) =>
          /\ (/\ tiltRun'.dir # "neutral" /\ tiltRun'.len > tiltConfirmFrames
              /\ tiltLog.sinceNeutral["left"] + tiltLog.sinceNeutral["right"] = 0
              /\ now' - lastTiltTimeRef > tiltDebounceMs)
                => Count(fired', TiltNames) = 1
          /\ isBlinkingRef => ~Has(fired', "onBlink")]_vars

\* a second right tilt, confirmed 500 ms after the first event, has just fired two
\* frames after its confirmation, while a closure suppressed at its confirmation
\* is still held, the blink debounce long elapsed, and has fired nothing
C32_Witness ==
    /\ fired = <<"onTiltRight">> /\ tiltLog.total = 2
    /\ tiltRun.firedAt > tiltConfirmFrames
    /\ lowRun.len > blinkConfirmFrames /\ lowRun.fires = 0
    /\ blinkLog # {} /\ BlinkDebounced(now, lastBlinkTimeRef)

\* currentIndex points at a photo of the list
IndexInRange(p) ==
    Len(p.photos) > 0 => 0 <= p.currentIndex /\ p.currentIndex <= Len(p.photos) - 1

\* C33: in every reachable state with a non-empty photo list,
\* 0 <= currentIndex <= photos.length - 1, in the pending state and in what is
\* rendered, under any interleaving of tilt events, arrow keys and the Next and
\* Previous buttons.
C33_IndexInRange ==
    IndexInRange(page) /\ IndexInRange(rendered)

\* the render that takes a session of uploaded photos to the results page
ReachesResults ==
    /\ rendered' = page
    /\ rendered.appState # "results" /\ page.appState = "results"
    /\ ~page.isDemoMode /\ Len(page.photos) > 0

\* C34: every non-demo session with at least one photo that reaches the results page
\* issues exactly one email request: one when it gets there, whatever became of the
\* requests of earlier sessions, and no other for as long as the page stays.
C34_OneEmailPerSession ==
    [][/\ ReachesResults => inFlight' = inFlight + 1
       /\ (rendered.appState = "results" /\ page.appState = "results")
             => inFlight' <= inFlight]_vars

\* C35: a blink event never fires on a frame that finds eyeOpenSinceRef at 0: the
\* first closure of a session, or a closure with no open frame evaluated since the
\* last fired blink, fires nothing.
C35_NoBlinkWhileMarkerUnset ==
    [][(now' # now /\ Has(fired', "onBlink")) => eyeOpenSinceRef # 0]_vars

\* a frame whose fire block invokes onBlink
BlinkEvent == Has(fired', "onBlink") /\ state'.blinkCount = state.blinkCount + 1

\* C36: a blink event outside calibration in 'review' or 'demo' inverts the marked
\* flag of the photo at currentIndex and of no other photo, and by itself changes
\* neither currentIndex nor appState (so a second blink on the photo restores it).
C36_BlinkTogglesCurrentPhoto ==
    [][(BlinkEvent /\ ~page.isCalibrating /\ page.appState \in {"review", "demo"}) =>
          /\ DOMAIN page'.photos = DOMAIN page.photos
          /\ \A i \in DOMAIN page.photos :
                page'.photos[i] = IF i - 1 = page.currentIndex
                                  THEN ~page.photos[i] ELSE page.photos[i]
          /\ fired' = <<"onBlink">> =>
                /\ page'.currentIndex = page.currentIndex
                /\ page'.appState = page.appState]_vars

\* a blink on the second of two photos has just unmarked it again: the first photo
\* is as it was
C36_Witness ==
    /\ fired = <<"onBlink">> /\ state.blinkCount >= 2
    /\ page.appState = "review" /\ ~page.isCalibrating
    /\ page.currentIndex = 1
    /\ rendered.photos = <<FALSE, TRUE>> /\ page.photos = <<FALSE, FALSE>>
    /\ rendered.currentIndex = page.currentIndex

\* C37: the frame pump never stalls: whenever detection is initialised (a face mesh
\* is held) and no frame is being sent, a processFrame call sends a frame later on,
\* unless stopDetection is called first.
C37_PumpNeverStalls ==
    (faceMeshRef /\ sends.current = 0) ~> (sends.current > 0 \/ ~faceMeshRef)

\* C38: the attachments of every email sent by the route respect the 40 MB limit:
\* each is a non-empty zip of at most 40 MB, their sizes add up to at most 40 MB, and
\* when the two zips that qualify add up to more the email carries no attachment.
C38_AttachmentsWithinLimit ==
    \A i \in 1..Len(emails) :
        LET sent == emails[i].attachments
            kept == request.keptZip
            deleted == request.deletedZip
        IN  /\ \A j \in 1..Len(sent) : sent[j] > 0 /\ sent[j] <= MAX_ATTACHMENT_SIZE
            /\ Sum(sent) <= MAX_ATTACHMENT_SIZE
            /\ (/\ kept \in 1..MAX_ATTACHMENT_SIZE /\ deleted \in 1..MAX_ATTACHMENT_SIZE
                /\ kept + deleted > MAX_ATTACHMENT_SIZE) => sent = <<>>

\* an email sent for two zips of just over 20 MB each: no attachment
C38_Witness ==
    /\ Len(emails) = 1 /\ emails[1].attachments = <<>>
    /\ request.keptZip = MAX_ATTACHMENT_SIZE \div 2 + 1
    /\ request.deletedZip = MAX_ATTACHMENT_SIZE \div 2 + 1

\* C39: the two latch flags of the tilt classifier are complementary in every
\* reachable state: hasFiredTiltRef is true exactly when wasNeutralRef is false.
C39_LatchFlagsComplementary == hasFiredTiltRef <=> ~wasNeutralRef

\* both flags have flipped twice: a tilt event fired, and a Neutral frame after it
\* released the latch
C39_Witness ==
    /\ tiltLog.total > 0 /\ tiltLog.lastAt < now
    /\ ~hasFiredTiltRef /\ wasNeutralRef
    /\ lastTiltDirectionRef = "neutral" /\ state.headTilt = "neutral"

====
